---- MODULE Spec2Model ----
(***************************************************************************)
(* Model of xla::PjRtEvent<T> (tensorflow/compiler/xla/pjrt/pjrt_event.h): *)
(* a single-assignment future wrapping a tfrt::AsyncValueRef<T>, its       *)
(* producer-side handle PjRtEvent<T>::Event, and the two ways of consuming *)
(* it, BlockHostUntilReady and OnReady.                                    *)
(*                                                                         *)
(* The async value is the shared state: an availability state, the stored  *)
(* value and the set of continuations registered with AndThen.  Event and  *)
(* PjRtEvent objects are references to an async value.  Client threads     *)
(* each run one call, BlockHostUntilReady or OnReady, step by step, while  *)
(* a producer creates handles and futures and calls Event::Set.            *)
(*                                                                         *)
(* Two pure computations found in tfjs/transforms/optimize_pattern.td are  *)
(* modelled next to it, each under a specification of its own that draws   *)
(* the arguments of one call: tflite::gpu::ToGlslShaderDataType, and the    *)
(* PReLU rewrite pattern.                                                  *)
(***************************************************************************)
EXTENDS Naturals, Integers, Sequences, FiniteSets

\* Bounds of the model.
NumThreads == 2     \* client threads, each making one call on a future
NumObjects == 3     \* Event and PjRtEvent objects constructed, in all
MaxValue == 2       \* values of T are 1..MaxValue
MaxSetCalls == 2    \* calls of Event::Set followed on one async value
MaxVecSize == 12    \* vec_size of ToGlslShaderDataType is -MaxVecSize..MaxVecSize
MaxRank == 3        \* ranks of the operands of the PReLU pattern are 0..MaxRank
MaxOtherUses == 1   \* uses of a matched value by operations outside the pattern

Threads == 1..NumThreads
Events == 1..NumObjects       \* names of Event objects
Futures == 1..NumObjects      \* names of PjRtEvent objects
\* Every async value is made for a new object, and is named after it: the one
\* CreateUnSetEvent makes after the Event, the one PjRtEvent(T) makes after the
\* PjRtEvent.
UnconstructedFor(h) == h
AvailableFor(f) == NumObjects + f
AsyncValues == {UnconstructedFor(h) : h \in Events} \cup {AvailableFor(f) : f \in Futures}
Values == 1..MaxValue

Null == 0       \* an AsyncValueRef that refers to no async value
NoValue == 0    \* the storage of an unconstructed async value

VARIABLES
  avState,   \* per async value: "free" (not allocated), "unconstructed", "concrete",
             \* "destroyed" (its last reference was released)
  avData,    \* per async value: the stored T, NoValue while unconstructed
  waiters,   \* per async value: continuations registered with AndThen, not yet taken
  running,   \* per async value: continuations taken by emplace, still to be run
  setCalls,  \* per async value: how many times Event::Set was called on it
  refCount,  \* per async value: the references held on it (AsyncValueRef, RCReference)
  event,     \* per Event object: Event::avr (Null for a default-constructed Event)
  futAv,     \* per PjRtEvent object: event_ (Null while the object is not constructed)
  futCtx,    \* per PjRtEvent object: host_ctx_, "null" or "ctx"
  evMade,    \* per Event object: the async value of the object it was made from
  futMade,   \* per PjRtEvent object: the async value of the object it was made from
  pc,        \* per thread: its position in the call it makes
  op,        \* per thread: "none", "BlockHostUntilReady" or "OnReady"
  cur,       \* per thread: the PjRtEvent object the call is made on
  ret,       \* per thread: the value BlockHostUntilReady returned
  path,      \* per thread: "available" or "unavailable" as the call found the
             \* value, "blocked" once BlockHostUntilReady has suspended the thread
  calls,     \* per thread: the collaborators the call invoked, in order
  cbArgs,    \* per thread: the arguments its OnReady callback was invoked with
  aborted,   \* the process was stopped by a failed assertion or a null dereference
  data_type,      \* ToGlslShaderDataType: the DataType argument
  vec_size,       \* ToGlslShaderDataType: the vec_size argument
  add_precision,  \* ToGlslShaderDataType: the add_precision argument
  explicit_fp16,  \* ToGlslShaderDataType: the explicit_fp16 argument
  kernel_type,    \* ToGlslShaderDataType: the string returned
  glslPc,         \* "none" (no call), "call" (arguments chosen) or "returned"
  ops,            \* PReLU pattern: the operations of the function being rewritten
  rank            \* PReLU pattern: the rank of the type of the values x and neg_alpha

vars == <<avState, avData, waiters, running, setCalls, refCount, event, futAv, futCtx,
          evMade, futMade, pc, op, cur, ret, path, calls, cbArgs, aborted,
          data_type, vec_size, add_precision, explicit_fp16, kernel_type, glslPc,
          ops, rank>>

avVars == <<avState, avData, waiters, running, setCalls, refCount>>
objVars == <<event, futAv, futCtx, evMade, futMade>>
threadVars == <<pc, op, cur, ret, path, calls, cbArgs>>
eventVars == <<avVars, objVars, threadVars, aborted>>
glslVars == <<data_type, vec_size, add_precision, explicit_fp16, kernel_type, glslPc>>
preluVars == <<ops, rank>>
\* What no operation of PjRtEvent touches.
fnVars == <<glslVars, preluVars>>

\* A continuation registered on an async value: the lambda of OnReady for the
\* callback of thread id, or the notifier that HostContext::Await registers.
Waiter(kind, id) == [kind |-> kind, id |-> id]

\* tfrt::AsyncValueRef<T>::IsAvailable
IsAvailable(a) == avState[a] = "concrete"

\* tfrt::AsyncValueRef<T>::IsConcrete
IsConcrete(a) == avState[a] = "concrete"

\* tfrt::AsyncValueRef<T>::operator*
Deref(a) == avData[a]

\* CopyRef / CopyRCRef: one more reference on async value a.
CopyRef(a) == refCount' = [refCount EXCEPT ![a] = @ + 1]

\* The destructor of an AsyncValueRef or RCReference on a: the reference is
\* released, and the async value is destroyed with the last one.
Release(a) ==
  /\ refCount' = [refCount EXCEPT ![a] = @ - 1]
  /\ avState' = [avState EXCEPT ![a] = IF refCount[a] = 1 THEN "destroyed" ELSE @]

\* bool Event::operator!() { return !avr; }
OperatorNot(h) == event[h] = Null

\* Objects and threads are interchangeable, so they are taken in order: the
\* next Event or PjRtEvent object constructed is the first unused one, and the
\* next thread to make its call is the first idle one.
NumConstructed == Cardinality({h \in Events : evMade[h] # Null})
                  + Cardinality({f \in Futures : futMade[f] # Null})
NextEvent(h) == /\ evMade[h] = Null
                /\ \A g \in 1..(h - 1) : evMade[g] # Null
                /\ NumConstructed < NumObjects
NextFuture(f) == /\ futMade[f] = Null
                 /\ \A g \in 1..(f - 1) : futMade[g] # Null
                 /\ NumConstructed < NumObjects
NextThread(t) == pc[t] = "idle" /\ \A u \in Threads : u < t => pc[u] # "idle"

\* No Event or PjRtEvent object constructed yet, no thread in a call.
EventInit ==
  /\ avState = [a \in AsyncValues |-> "free"]
  /\ avData = [a \in AsyncValues |-> NoValue]
  /\ waiters = [a \in AsyncValues |-> {}]
  /\ running = [a \in AsyncValues |-> {}]
  /\ setCalls = [a \in AsyncValues |-> 0]
  /\ refCount = [a \in AsyncValues |-> 0]
  /\ event = [h \in Events |-> Null]
  /\ futAv = [f \in Futures |-> Null]
  /\ futCtx = [f \in Futures |-> "null"]
  /\ evMade = [h \in Events |-> Null]
  /\ futMade = [f \in Futures |-> Null]
  /\ pc = [t \in Threads |-> "idle"]
  /\ op = [t \in Threads |-> "none"]
  /\ cur = [t \in Threads |-> Null]
  /\ ret = [t \in Threads |-> NoValue]
  /\ path = [t \in Threads |-> "none"]
  /\ calls = [t \in Threads |-> <<>>]
  /\ cbArgs = [t \in Threads |-> <<>>]
  /\ aborted = FALSE

\* No call of ToGlslShaderDataType.
GlslIdle ==
  /\ data_type = "UNKNOWN"
  /\ vec_size = 1
  /\ add_precision = FALSE
  /\ explicit_fp16 = FALSE
  /\ kernel_type = ""
  /\ glslPc = "none"

\* The values the PReLU pattern binds to $x and $neg_alpha, and the result of
\* an operation.
Val(name) == <<name, 0>>
ArgX == Val("x")
ArgNegAlpha == Val("neg_alpha")

\* No function to rewrite.
PReluIdle ==
  /\ ops = {}
  /\ rank = [v \in {ArgX, ArgNegAlpha} |-> 0]

Init == EventInit /\ GlslIdle /\ PReluIdle

----------------------------------------------------------------------------
\* Construction and copying of Event and PjRtEvent objects.

\* A CreateUnSetEvent that hands out one static async value to every caller.
CreateUnSetEvent_Static(h) ==
  /\ ~aborted
  /\ UNCHANGED fnVars
  /\ NextEvent(h)
  /\ avState' = [avState EXCEPT ![UnconstructedFor(1)] =
                   IF @ = "free" THEN "unconstructed" ELSE @]
  /\ CopyRef(UnconstructedFor(1))
  /\ event' = [event EXCEPT ![h] = UnconstructedFor(1)]
  /\ evMade' = [evMade EXCEPT ![h] = UnconstructedFor(h)]
  /\ UNCHANGED <<avData, waiters, running, setCalls, futAv, futCtx, futMade,
                 threadVars, aborted>>

\* h = PjRtEvent<T>::CreateUnSetEvent(): a handle on a fresh unconstructed value.
CreateUnSetEvent(h) ==
  /\ ~aborted
  /\ UNCHANGED fnVars
  /\ NextEvent(h)
  /\ avState' = [avState EXCEPT ![UnconstructedFor(h)] = "unconstructed"]
  /\ refCount' = [refCount EXCEPT ![UnconstructedFor(h)] = 1]
  /\ event' = [event EXCEPT ![h] = UnconstructedFor(h)]
  /\ evMade' = [evMade EXCEPT ![h] = UnconstructedFor(h)]
  /\ UNCHANGED <<avData, waiters, running, setCalls, futAv, futCtx, futMade,
                 threadVars, aborted>>

\* A copy constructor that leaves avr out: the copy is an empty handle.
CopyEvent_Forgets(h1, h2) ==
  /\ ~aborted
  /\ UNCHANGED fnVars
  /\ h1 # h2
  /\ event[h1] # Null
  /\ NextEvent(h2)
  /\ evMade' = [evMade EXCEPT ![h2] = event[h1]]
  /\ UNCHANGED <<avVars, event, futAv, futCtx, futMade, threadVars, aborted>>

\* Event(const Event& other) / operator=: avr = other.avr.CopyRef().
CopyEvent(h1, h2) ==
  /\ ~aborted
  /\ UNCHANGED fnVars
  /\ h1 # h2
  /\ event[h1] # Null
  /\ NextEvent(h2)
  /\ event' = [event EXCEPT ![h2] = event[h1]]
  /\ evMade' = [evMade EXCEPT ![h2] = event[h1]]
  /\ CopyRef(event[h1])
  /\ UNCHANGED <<avState, avData, waiters, running, setCalls, futAv, futCtx,
                 futMade, threadVars, aborted>>

\* PjRtEvent(T t): an available async value holding t, and a null host_ctx_.
NewAvailableFuture(f, v) ==
  /\ ~aborted
  /\ UNCHANGED fnVars
  /\ NextFuture(f)
  /\ avState' = [avState EXCEPT ![AvailableFor(f)] = "concrete"]
  /\ avData' = [avData EXCEPT ![AvailableFor(f)] = v]
  /\ refCount' = [refCount EXCEPT ![AvailableFor(f)] = 1]
  /\ futAv' = [futAv EXCEPT ![f] = AvailableFor(f)]
  /\ futCtx' = [futCtx EXCEPT ![f] = "null"]
  /\ futMade' = [futMade EXCEPT ![f] = AvailableFor(f)]
  /\ UNCHANGED <<waiters, running, setCalls, event, evMade, threadVars, aborted>>

\* PjRtEvent(const PjRtEventContext& ctx, Event event, ...): event_ takes the
\* async value of (a copy of) the handle, host_ctx_ is ctx.host_ctx.get().
NewFutureFromEvent(f, h) ==
  /\ ~aborted
  /\ UNCHANGED fnVars
  /\ NextFuture(f)
  /\ event[h] # Null
  /\ futAv' = [futAv EXCEPT ![f] = event[h]]
  /\ futCtx' = [futCtx EXCEPT ![f] = "ctx"]
  /\ futMade' = [futMade EXCEPT ![f] = event[h]]
  /\ CopyRef(event[h])
  /\ UNCHANGED <<avState, avData, waiters, running, setCalls, event, evMade,
                 threadVars, aborted>>

\* Copy of a PjRtEvent: member-wise, event_ and host_ctx_ are those of f1.
CopyFuture(f1, f2) ==
  /\ ~aborted
  /\ UNCHANGED fnVars
  /\ f1 # f2
  /\ futAv[f1] # Null
  /\ NextFuture(f2)
  /\ futAv' = [futAv EXCEPT ![f2] = futAv[f1]]
  /\ futCtx' = [futCtx EXCEPT ![f2] = futCtx[f1]]
  /\ futMade' = [futMade EXCEPT ![f2] = futAv[f1]]
  /\ CopyRef(futAv[f1])
  /\ UNCHANGED <<avState, avData, waiters, running, setCalls, event, evMade,
                 threadVars, aborted>>

----------------------------------------------------------------------------
\* The producer side: Event::Set.

\* An emplace that wakes one continuation and forgets the others.
Emplace_NotifyOne(a, v) ==
  /\ avData' = [avData EXCEPT ![a] = v]
  /\ avState' = [avState EXCEPT ![a] = "concrete"]
  /\ running' = [running EXCEPT ![a] =
                   IF waiters[a] = {} THEN running[a]
                   ELSE running[a] \cup {CHOOSE w \in waiters[a] : TRUE}]
  /\ waiters' = [waiters EXCEPT ![a] = {}]

\* tfrt emplace on an unconstructed async value: the value is stored, the state
\* becomes concrete and the registered continuations are taken to be run.
Emplace(a, v) ==
  /\ avData' = [avData EXCEPT ![a] = v]
  /\ avState' = [avState EXCEPT ![a] = "concrete"]
  /\ running' = [running EXCEPT ![a] = running[a] \cup waiters[a]]
  /\ waiters' = [waiters EXCEPT ![a] = {}]

\* A second emplace whose assertion comes after the store: it aborts, but the
\* stored value is already replaced.
EmplaceAgain_StoreThenAbort(a, v) ==
  /\ aborted' = TRUE
  /\ avData' = [avData EXCEPT ![a] = v]
  /\ UNCHANGED <<avState, running, waiters>>

\* emplace on an async value that is already concrete.  Set makes no check of
\* its own; the only guard is an assertion of the async value.  A build that
\* keeps assertions aborts with the value untouched; a build that drops them
\* (NDEBUG) has undefined behaviour: the new value is constructed over the old.
EmplaceAgain(a, v) ==
  \/ /\ aborted' = TRUE
     /\ UNCHANGED <<avData, avState, running, waiters>>
  \/ /\ avData' = [avData EXCEPT ![a] = v]
     /\ UNCHANGED <<avState, running, waiters, aborted>>

\* void Event::Set(T value) { avr.emplace(std::move(value)); }
EventSet(h, v) ==
  /\ ~aborted
  /\ UNCHANGED fnVars
  /\ event[h] # Null
  /\ setCalls[event[h]] < MaxSetCalls
  /\ setCalls' = [setCalls EXCEPT ![event[h]] = @ + 1]
  /\ IF avState[event[h]] = "unconstructed"
       THEN Emplace(event[h], v) /\ UNCHANGED aborted
       ELSE EmplaceAgain(event[h], v)
  /\ UNCHANGED <<refCount, objVars, threadVars>>

\* "Sets the value of the event. Must be called at most once.": the contract a
\* producer keeps, over all copies of the handle.
CalledAtMostOnce(h) == event[h] # Null /\ setCalls[event[h]] = 0

\* A notifier of Await that does not wake the blocked thread.
RunContinuation_NoWake(a, w) ==
  IF w.kind = "callback"
    THEN /\ cbArgs' = [cbArgs EXCEPT ![w.id] = Append(@, Deref(a))]
         /\ UNCHANGED <<pc, op, cur, ret, path, calls, aborted>>
    ELSE UNCHANGED <<threadVars, aborted>>

\* What running one continuation does: the lambda of OnReady checks IsConcrete
\* and calls the callback with *event; the notifier of Await lets the blocked
\* thread leave Await.
RunContinuation(a, w) ==
  IF w.kind = "callback"
    THEN \/ /\ ~IsConcrete(a)      \* DCHECK(event.IsConcrete()) fails
            /\ aborted' = TRUE
            /\ UNCHANGED threadVars
         \/ /\ cbArgs' = [cbArgs EXCEPT ![w.id] = Append(@, Deref(a))]
            /\ UNCHANGED <<pc, op, cur, ret, path, calls, aborted>>
    ELSE /\ pc' = [pc EXCEPT ![w.id] = "return"]
         /\ UNCHANGED <<op, cur, ret, path, calls, cbArgs, aborted>>

\* Running a continuation that moves the value out of the async value, as
\* callback(std::move(*event)) would: the storage is left without it.
RunWaiter_MovesValue(a, w) ==
  /\ ~aborted
  /\ UNCHANGED fnVars
  /\ w \in running[a]
  /\ running' = [running EXCEPT ![a] = @ \ {w}]
  /\ RunContinuation(a, w)
  /\ Release(a)
  /\ avData' = [avData EXCEPT ![a] = IF w.kind = "callback" THEN NoValue ELSE @]
  /\ UNCHANGED <<waiters, setCalls, objVars>>

\* The resolving thread runs, one by one, the continuations emplace took.  A
\* continuation that has run gives up its reference: the lambda of OnReady is
\* destroyed with the AsyncValueRef it captured, and Await returns and
\* destroys the RCReference it was given.
RunWaiter(a, w) ==
  /\ ~aborted
  /\ UNCHANGED fnVars
  /\ w \in running[a]
  /\ running' = [running EXCEPT ![a] = @ \ {w}]
  /\ RunContinuation(a, w)
  /\ Release(a)
  /\ UNCHANGED <<avData, waiters, setCalls, objVars>>

----------------------------------------------------------------------------
\* T BlockHostUntilReady(), run by thread t on PjRtEvent object f.

\* BlockHostUntilReady without the availability test: it always goes to Await.
BlockHostUntilReady_Test_AlwaysAwait(t, f) ==
  /\ ~aborted
  /\ UNCHANGED fnVars
  /\ NextThread(t)
  /\ futAv[f] # Null
  /\ op' = [op EXCEPT ![t] = "BlockHostUntilReady"]
  /\ cur' = [cur EXCEPT ![t] = f]
  /\ path' = [path EXCEPT ![t] =
                IF IsAvailable(futAv[f]) THEN "available" ELSE "unavailable"]
  /\ pc' = [pc EXCEPT ![t] = "await"]
  /\ UNCHANGED <<avVars, objVars, ret, calls, cbArgs, aborted>>

\* A BlockHostUntilReady that reaches for host_ctx_ before it tests the value.
BlockHostUntilReady_Test_ContextFirst(t, f) ==
  /\ ~aborted
  /\ UNCHANGED fnVars
  /\ NextThread(t)
  /\ futAv[f] # Null
  /\ op' = [op EXCEPT ![t] = "BlockHostUntilReady"]
  /\ cur' = [cur EXCEPT ![t] = f]
  /\ IF futCtx[f] = "null"
       THEN /\ aborted' = TRUE
            /\ UNCHANGED <<path, ret, pc>>
       ELSE /\ UNCHANGED aborted
            /\ IF IsAvailable(futAv[f])
                 THEN /\ path' = [path EXCEPT ![t] = "available"]
                      /\ ret' = [ret EXCEPT ![t] = Deref(futAv[f])]
                      /\ pc' = [pc EXCEPT ![t] = "done"]
                 ELSE /\ path' = [path EXCEPT ![t] = "unavailable"]
                      /\ pc' = [pc EXCEPT ![t] = "await"]
                      /\ UNCHANGED ret
  /\ UNCHANGED <<avVars, objVars, calls, cbArgs>>

\* if (!event_.IsAvailable()) ...: the availability test that picks the path.
\* On an available value the call skips the Await and goes on to its return,
\* DCHECK(event_.IsConcrete()); return *event_;
BlockHostUntilReady_Test(t, f) ==
  /\ ~aborted
  /\ UNCHANGED fnVars
  /\ NextThread(t)
  /\ futAv[f] # Null
  /\ op' = [op EXCEPT ![t] = "BlockHostUntilReady"]
  /\ cur' = [cur EXCEPT ![t] = f]
  /\ IF IsAvailable(futAv[f])
       THEN /\ path' = [path EXCEPT ![t] = "available"]
            /\ ret' = [ret EXCEPT ![t] = Deref(futAv[f])]
            /\ pc' = [pc EXCEPT ![t] = "done"]
       ELSE /\ path' = [path EXCEPT ![t] = "unavailable"]
            /\ pc' = [pc EXCEPT ![t] = "await"]
            /\ UNCHANGED ret
  /\ UNCHANGED <<avVars, objVars, calls, cbArgs, aborted>>

\* An Await that returns without waiting for the value.
BlockHostUntilReady_Await_NoWait(t) ==
  /\ ~aborted
  /\ UNCHANGED fnVars
  /\ pc[t] = "await"
  /\ futCtx[cur[t]] # "null"
  /\ calls' = [calls EXCEPT ![t] = Append(@, "Await")]
  /\ pc' = [pc EXCEPT ![t] = "return"]
  /\ UNCHANGED <<avVars, objVars, op, cur, ret, path, cbArgs, aborted>>

\* An Await that blocks on its notifier without looking at the value again: a
\* notifier registered after emplace took the continuations is never run.
BlockHostUntilReady_Await_BlindWait(t) ==
  /\ ~aborted
  /\ UNCHANGED fnVars
  /\ pc[t] = "await"
  /\ IF futCtx[cur[t]] = "null"
       THEN /\ aborted' = TRUE
            /\ UNCHANGED <<pc, path, calls, waiters, refCount>>
       ELSE /\ calls' = [calls EXCEPT ![t] = Append(@, "Await")]
            /\ pc' = [pc EXCEPT ![t] = "blocked"]
            /\ path' = [path EXCEPT ![t] = "blocked"]
            /\ waiters' = [waiters EXCEPT ![futAv[cur[t]]] =
                             @ \cup {Waiter("await", t)}]
            /\ CopyRef(futAv[cur[t]])
            /\ UNCHANGED aborted
  /\ UNCHANGED <<avState, avData, running, setCalls, objVars,
                 op, cur, ret, cbArgs>>

\* host_ctx_->Await({event_.CopyRCRef()}): dereferences host_ctx_, then returns
\* at once when the value has become available, and otherwise registers a
\* notifier on the value and blocks the thread until the notifier runs.  The
\* RCReference made for the call lives as long as the call: it is counted
\* while the thread is blocked, and comes and goes within the step otherwise.
BlockHostUntilReady_Await(t) ==
  /\ ~aborted
  /\ UNCHANGED fnVars
  /\ pc[t] = "await"
  /\ IF futCtx[cur[t]] = "null"
       THEN /\ aborted' = TRUE
            /\ UNCHANGED <<pc, path, calls, waiters, refCount>>
       ELSE /\ calls' = [calls EXCEPT ![t] = Append(@, "Await")]
            /\ IF IsAvailable(futAv[cur[t]])
                 THEN /\ pc' = [pc EXCEPT ![t] = "return"]
                      /\ UNCHANGED <<path, waiters, refCount>>
                 ELSE /\ pc' = [pc EXCEPT ![t] = "blocked"]
                      /\ path' = [path EXCEPT ![t] = "blocked"]
                      /\ waiters' = [waiters EXCEPT ![futAv[cur[t]]] =
                                       @ \cup {Waiter("await", t)}]
                      /\ CopyRef(futAv[cur[t]])
            /\ UNCHANGED aborted
  /\ UNCHANGED <<avState, avData, running, setCalls, objVars,
                 op, cur, ret, cbArgs>>

\* A return that takes the value out and leaves the async value unresolved, as
\* the get of a one-shot future does.
BlockHostUntilReady_Return_Resets(t) ==
  /\ ~aborted
  /\ UNCHANGED fnVars
  /\ pc[t] = "return"
  /\ ret' = [ret EXCEPT ![t] = Deref(futAv[cur[t]])]
  /\ pc' = [pc EXCEPT ![t] = "done"]
  /\ avState' = [avState EXCEPT ![futAv[cur[t]]] = "unconstructed"]
  /\ avData' = [avData EXCEPT ![futAv[cur[t]]] = NoValue]
  /\ UNCHANGED <<waiters, running, setCalls, refCount, objVars, op, cur, path,
                 calls, cbArgs, aborted>>

\* DCHECK(event_.IsConcrete()); return *event_;
BlockHostUntilReady_Return(t) ==
  /\ ~aborted
  /\ UNCHANGED fnVars
  /\ pc[t] = "return"
  /\ \/ /\ ~IsConcrete(futAv[cur[t]])   \* the DCHECK fails
        /\ aborted' = TRUE
        /\ UNCHANGED <<pc, ret>>
     \/ /\ ret' = [ret EXCEPT ![t] = Deref(futAv[cur[t]])]
        /\ pc' = [pc EXCEPT ![t] = "done"]
        /\ UNCHANGED aborted
  /\ UNCHANGED <<avVars, objVars, op, cur, path, calls, cbArgs>>

----------------------------------------------------------------------------
\* void OnReady(std::function<void(T)> callback), run by thread t on object f.

\* An OnReady that only ever queues the lambda, also on an available value.
OnReady_NoInline(t, f) ==
  /\ ~aborted
  /\ UNCHANGED fnVars
  /\ NextThread(t)
  /\ futAv[f] # Null
  /\ op' = [op EXCEPT ![t] = "OnReady"]
  /\ cur' = [cur EXCEPT ![t] = f]
  /\ pc' = [pc EXCEPT ![t] = "done"]
  /\ path' = [path EXCEPT ![t] =
                IF IsAvailable(futAv[f]) THEN "available" ELSE "unavailable"]
  /\ waiters' = [waiters EXCEPT ![futAv[f]] = @ \cup {Waiter("callback", t)}]
  /\ CopyRef(futAv[f])
  /\ UNCHANGED <<avState, avData, running, setCalls, objVars,
                 ret, calls, cbArgs, aborted>>

\* An OnReady that waits for the value, as Await does, before it returns.
OnReady_Waits(t, f) ==
  /\ ~aborted
  /\ UNCHANGED fnVars
  /\ NextThread(t)
  /\ futAv[f] # Null
  /\ op' = [op EXCEPT ![t] = "OnReady"]
  /\ cur' = [cur EXCEPT ![t] = f]
  /\ IF IsAvailable(futAv[f])
       THEN /\ path' = [path EXCEPT ![t] = "available"]
            /\ pc' = [pc EXCEPT ![t] = "done"]
            /\ cbArgs' = [cbArgs EXCEPT ![t] = Append(@, Deref(futAv[f]))]
            /\ UNCHANGED <<waiters, refCount>>
       ELSE /\ path' = [path EXCEPT ![t] = "blocked"]
            /\ pc' = [pc EXCEPT ![t] = "blocked"]
            /\ waiters' = [waiters EXCEPT ![futAv[f]] =
                             @ \cup {Waiter("callback", t), Waiter("await", t)}]
            /\ refCount' = [refCount EXCEPT ![futAv[f]] = @ + 2]
            /\ UNCHANGED cbArgs
  /\ UNCHANGED <<avState, avData, running, setCalls, objVars,
                 ret, calls, aborted>>

\* An OnReady on an async value that keeps a single continuation: registering
\* a callback replaces the continuations registered before.
OnReady_SingleSlot(t, f) ==
  /\ ~aborted
  /\ UNCHANGED fnVars
  /\ NextThread(t)
  /\ futAv[f] # Null
  /\ op' = [op EXCEPT ![t] = "OnReady"]
  /\ cur' = [cur EXCEPT ![t] = f]
  /\ pc' = [pc EXCEPT ![t] = "done"]
  /\ IF IsAvailable(futAv[f])
       THEN /\ path' = [path EXCEPT ![t] = "available"]
            /\ cbArgs' = [cbArgs EXCEPT ![t] = Append(@, Deref(futAv[f]))]
            /\ UNCHANGED <<waiters, refCount>>
       ELSE /\ path' = [path EXCEPT ![t] = "unavailable"]
            /\ waiters' = [waiters EXCEPT ![futAv[f]] = {Waiter("callback", t)}]
            /\ CopyRef(futAv[f])
            /\ UNCHANGED cbArgs
  /\ UNCHANGED <<avState, avData, running, setCalls, objVars,
                 ret, calls, aborted>>

\* An OnReady whose lambda captures event_ by reference, without CopyRef: the
\* pending callback holds no reference of its own on the async value.
OnReady_NoCopyRef(t, f) ==
  /\ ~aborted
  /\ UNCHANGED fnVars
  /\ NextThread(t)
  /\ futAv[f] # Null
  /\ op' = [op EXCEPT ![t] = "OnReady"]
  /\ cur' = [cur EXCEPT ![t] = f]
  /\ pc' = [pc EXCEPT ![t] = "done"]
  /\ IF IsAvailable(futAv[f])
       THEN /\ path' = [path EXCEPT ![t] = "available"]
            /\ cbArgs' = [cbArgs EXCEPT ![t] = Append(@, Deref(futAv[f]))]
            /\ UNCHANGED waiters
       ELSE /\ path' = [path EXCEPT ![t] = "unavailable"]
            /\ waiters' = [waiters EXCEPT ![futAv[f]] =
                             @ \cup {Waiter("callback", t)}]
            /\ UNCHANGED cbArgs
  /\ UNCHANGED <<avState, avData, running, setCalls, refCount, objVars,
                 ret, calls, aborted>>

\* event_.AndThen(lambda): on an available value the lambda runs at once, on
\* the calling thread, and is destroyed with the AsyncValueRef it captured;
\* otherwise it is added to the continuations of the value, and the reference
\* it captured (event = event_.CopyRef()) stays.  Either way the call returns.
OnReady(t, f) ==
  /\ ~aborted
  /\ UNCHANGED fnVars
  /\ NextThread(t)
  /\ futAv[f] # Null
  /\ op' = [op EXCEPT ![t] = "OnReady"]
  /\ cur' = [cur EXCEPT ![t] = f]
  /\ pc' = [pc EXCEPT ![t] = "done"]
  /\ IF IsAvailable(futAv[f])
       THEN /\ path' = [path EXCEPT ![t] = "available"]
            /\ cbArgs' = [cbArgs EXCEPT ![t] = Append(@, Deref(futAv[f]))]
            /\ UNCHANGED <<waiters, refCount>>
       ELSE /\ path' = [path EXCEPT ![t] = "unavailable"]
            /\ waiters' = [waiters EXCEPT ![futAv[f]] =
                             @ \cup {Waiter("callback", t)}]
            /\ CopyRef(futAv[f])
            /\ UNCHANGED cbArgs
  /\ UNCHANGED <<avState, avData, running, setCalls, objVars,
                 ret, calls, aborted>>

----------------------------------------------------------------------------
\* A producer that keeps the contract of Set, and the client threads.
Next ==
  \/ \E h \in Events : CreateUnSetEvent(h)
  \/ \E h1, h2 \in Events : CopyEvent(h1, h2)
  \/ \E f \in Futures, v \in Values : NewAvailableFuture(f, v)
  \/ \E f \in Futures, h \in Events : NewFutureFromEvent(f, h)
  \/ \E f1, f2 \in Futures : CopyFuture(f1, f2)
  \/ \E h \in Events, v \in Values : CalledAtMostOnce(h) /\ EventSet(h, v)
  \/ \E a \in AsyncValues : \E w \in running[a] : RunWaiter(a, w)
  \/ \E t \in Threads, f \in Futures : BlockHostUntilReady_Test(t, f)
  \/ \E t \in Threads : BlockHostUntilReady_Await(t)
  \/ \E t \in Threads : BlockHostUntilReady_Return(t)
  \/ \E t \in Threads, f \in Futures : OnReady(t, f)

Spec == Init /\ [][Next]_vars

\* The same with a producer that may call Set again on a value already set.
NextMisuse ==
  \/ \E h \in Events : CreateUnSetEvent(h)
  \/ \E h1, h2 \in Events : CopyEvent(h1, h2)
  \/ \E f \in Futures, v \in Values : NewAvailableFuture(f, v)
  \/ \E f \in Futures, h \in Events : NewFutureFromEvent(f, h)
  \/ \E f1, f2 \in Futures : CopyFuture(f1, f2)
  \/ \E h \in Events, v \in Values : EventSet(h, v)
  \/ \E a \in AsyncValues : \E w \in running[a] : RunWaiter(a, w)
  \/ \E t \in Threads, f \in Futures : BlockHostUntilReady_Test(t, f)
  \/ \E t \in Threads : BlockHostUntilReady_Await(t)
  \/ \E t \in Threads : BlockHostUntilReady_Return(t)
  \/ \E t \in Threads, f \in Futures : OnReady(t, f)

SpecMisuse == Init /\ [][NextMisuse]_vars

\* ~Event(): the handle gives up its reference.
DropEvent(h) ==
  /\ ~aborted
  /\ UNCHANGED fnVars
  /\ event[h] # Null
  /\ event' = [event EXCEPT ![h] = Null]
  /\ Release(event[h])
  /\ UNCHANGED <<avData, waiters, running, setCalls, futAv, futCtx, evMade,
                 futMade, threadVars, aborted>>

\* ~PjRtEvent(): event_ gives up its reference.  An object is not destroyed
\* while a member function is running on it.
DropFuture(f) ==
  /\ ~aborted
  /\ UNCHANGED fnVars
  /\ futAv[f] # Null
  /\ \A t \in Threads : cur[t] = f => pc[t] = "done"
  /\ futAv' = [futAv EXCEPT ![f] = Null]
  /\ Release(futAv[f])
  /\ UNCHANGED <<avData, waiters, running, setCalls, event, futCtx, evMade,
                 futMade, threadVars, aborted>>

\* The same as Next with owners that also destroy their Event and PjRtEvent
\* objects.
NextLifetime ==
  \/ \E h \in Events : CreateUnSetEvent(h)
  \/ \E h1, h2 \in Events : CopyEvent(h1, h2)
  \/ \E f \in Futures, v \in Values : NewAvailableFuture(f, v)
  \/ \E f \in Futures, h \in Events : NewFutureFromEvent(f, h)
  \/ \E f1, f2 \in Futures : CopyFuture(f1, f2)
  \/ \E h \in Events, v \in Values : CalledAtMostOnce(h) /\ EventSet(h, v)
  \/ \E a \in AsyncValues : \E w \in running[a] : RunWaiter(a, w)
  \/ \E t \in Threads, f \in Futures : BlockHostUntilReady_Test(t, f)
  \/ \E t \in Threads : BlockHostUntilReady_Await(t)
  \/ \E t \in Threads : BlockHostUntilReady_Return(t)
  \/ \E t \in Threads, f \in Futures : OnReady(t, f)
  \/ \E h \in Events : DropEvent(h)
  \/ \E f \in Futures : DropFuture(f)

SpecLifetime == Init /\ [][NextLifetime]_vars

\* Scheduling: emplace runs every continuation it took before it returns, and
\* a thread that can take the next step of its call takes it, so a step that
\* is pending is taken.  Nothing makes the producer call Set, or a client
\* start a call.
PendingStep ==
  \/ \E a \in AsyncValues : \E w \in running[a] : RunWaiter(a, w)
  \/ \E t \in Threads : BlockHostUntilReady_Await(t)
  \/ \E t \in Threads : BlockHostUntilReady_Return(t)

Fairness == WF_vars(PendingStep)

FairSpec == Spec /\ Fairness

----------------------------------------------------------------------------
\* tflite::gpu::ToGlslShaderDataType (optimize_pattern.td, lines 61-233).

\* enum class DataType, as the switch of SizeOf lists it.
DataTypes == {"UNKNOWN", "FLOAT16", "FLOAT32", "FLOAT64", "UINT8", "INT8",
              "UINT16", "INT16", "UINT32", "INT32", "UINT64", "INT64"}
VecSizes == (0 - MaxVecSize)..MaxVecSize

IsFloatDataType(dt) == dt = "FLOAT64" \/ dt = "FLOAT32" \/ dt = "FLOAT16"
IsIntDataType(dt) == dt = "INT64" \/ dt = "INT32" \/ dt = "INT16" \/ dt = "INT8"
IsUintDataType(dt) == dt = "UINT64" \/ dt = "UINT32" \/ dt = "UINT16" \/ dt = "UINT8"

\* size_t SizeOf(DataType data_type)
SizeOf(dt) ==
  CASE dt \in {"UINT8", "INT8"} -> 1
    [] dt \in {"FLOAT16", "INT16", "UINT16"} -> 2
    [] dt \in {"FLOAT32", "INT32", "UINT32"} -> 4
    [] dt \in {"FLOAT64", "INT64", "UINT64"} -> 8
    [] dt = "UNKNOWN" -> 0
    [] OTHER -> 0

\* std::to_string(int): the decimal digits, after a minus sign when negative.
DigitChar(d) ==
  CASE d = 0 -> "0" [] d = 1 -> "1" [] d = 2 -> "2" [] d = 3 -> "3"
    [] d = 4 -> "4" [] d = 5 -> "5" [] d = 6 -> "6" [] d = 7 -> "7"
    [] d = 8 -> "8" [] d = 9 -> "9"
RECURSIVE Decimal(_)
Decimal(n) == IF n < 10 THEN DigitChar(n) ELSE Decimal(n \div 10) \o DigitChar(n % 10)
to_string(n) == IF n < 0 THEN "-" \o Decimal(0 - n) ELSE Decimal(n)

\* A ToGlslShaderDataType that keeps the precision modifier of FLOAT16 when
\* explicit_fp16 is asked for.
ToGlslShaderDataType_KeepsPrecision(dt, vs, addp, fp16) ==
  LET size == SizeOf(dt)
      precision_modifier ==
        IF size >= 4 THEN "highp"
        ELSE IF size = 2 THEN "mediump"
        ELSE IF size = 1 THEN "lowp"
        ELSE ""
      f16 == fp16 /\ dt = "FLOAT16"
      scalar_type ==
        IF IsFloatDataType(dt) THEN (IF f16 THEN "float16_t" ELSE "float")
        ELSE IF IsIntDataType(dt) THEN "int"
        ELSE IF IsUintDataType(dt) THEN "uint"
        ELSE "unknown"
      vec_type ==
        IF IsFloatDataType(dt) THEN (IF f16 THEN "f16vec" ELSE "vec")
        ELSE IF IsIntDataType(dt) THEN "ivec"
        ELSE IF IsUintDataType(dt) THEN "uvec"
        ELSE "unknown"
      kernel == IF vs = 1 THEN scalar_type ELSE vec_type \o to_string(vs)
  IN  IF addp /\ precision_modifier # ""
        THEN precision_modifier \o " " \o kernel
        ELSE kernel

\* std::string ToGlslShaderDataType(DataType data_type, int vec_size,
\*                                  bool add_precision, bool explicit_fp16)
ToGlslShaderDataType(dt, vs, addp, fp16) ==
  LET size == SizeOf(dt)
      by_size ==
        IF size >= 4 THEN "highp"
        ELSE IF size = 2 THEN "mediump"
        ELSE IF size = 1 THEN "lowp"
        ELSE ""
      f16 == IsFloatDataType(dt) /\ fp16 /\ dt = "FLOAT16"
      precision_modifier == IF f16 THEN "" ELSE by_size
      scalar_type ==
        IF IsFloatDataType(dt) THEN (IF f16 THEN "float16_t" ELSE "float")
        ELSE IF IsIntDataType(dt) THEN "int"
        ELSE IF IsUintDataType(dt) THEN "uint"
        ELSE "unknown"
      vec_type ==
        IF IsFloatDataType(dt) THEN (IF f16 THEN "f16vec" ELSE "vec")
        ELSE IF IsIntDataType(dt) THEN "ivec"
        ELSE IF IsUintDataType(dt) THEN "uvec"
        ELSE "unknown"
      kernel == IF vs = 1 THEN scalar_type ELSE vec_type \o to_string(vs)
  IN  IF addp /\ precision_modifier # ""
        THEN precision_modifier \o " " \o kernel
        ELSE kernel

\* One call, with any arguments.
GlslInit ==
  /\ EventInit
  /\ data_type \in DataTypes
  /\ vec_size \in VecSizes
  /\ add_precision \in BOOLEAN
  /\ explicit_fp16 \in BOOLEAN
  /\ kernel_type = ""
  /\ glslPc = "call"
  /\ PReluIdle

GlslCall ==
  /\ glslPc = "call"
  /\ kernel_type' = ToGlslShaderDataType(data_type, vec_size, add_precision,
                                         explicit_fp16)
  /\ glslPc' = "returned"
  /\ UNCHANGED <<eventVars, data_type, vec_size, add_precision, explicit_fp16,
                 preluVars>>

GlslNext == GlslCall

SpecGlsl == GlslInit /\ [][GlslNext]_vars

----------------------------------------------------------------------------
\* The PReLU pattern of tfjs/transforms/optimize_pattern.td (lines 23-44).

\* An operation: its result, its kind and its operands in order.
Op(id, kind, operands) == [id |-> id, kind |-> kind, operands |-> operands]

\* The uses of value v: the operand slots that hold it.
Uses(v) ==
  {u \in UNION {{<<o.id, i>> : i \in 1..Len(o.operands)} : o \in ops} :
     \E o \in ops : o.id = u[1] /\ o.operands[u[2]] = v}

\* The operation whose result is value v (none for an argument).
DefiningOp(v) == {o \in ops : o.id = v}

\* def HasOneUse : Constraint<CPred<"$0.hasOneUse()">>
HasOneUse(v) == Cardinality(Uses(v)) = 1

\* def PReluAlphaRankCheck: the rank of $0 is the rank of $1 minus one.
PReluAlphaRankCheck(v0, v1) == rank[v0] = rank[v1] - 1

\* The function Keras gives: f(x) = Relu(x) + (-alpha * Relu(-x)), returned,
\* with n other operations using the result of each matched operation.
OtherUsers(name, v, n) == {Op(<<name, k>>, "Identity", <<v>>) : k \in 1..n}
KerasPRelu(nRelu, nMul, nNeg, nInner) ==
  {Op(Val("neg"), "Neg", <<ArgX>>),
   Op(Val("relu_neg"), "Relu", <<Val("neg")>>),
   Op(Val("mul"), "Mul", <<Val("relu_neg"), ArgNegAlpha>>),
   Op(Val("relu"), "Relu", <<ArgX>>),
   Op(Val("add"), "AddV2", <<Val("relu"), Val("mul")>>),
   Op(Val("return"), "Return", <<Val("add")>>)}
  \cup OtherUsers("use_relu", Val("relu"), nRelu)
  \cup OtherUsers("use_mul", Val("mul"), nMul)
  \cup OtherUsers("use_neg", Val("neg"), nNeg)
  \cup OtherUsers("use_relu_neg", Val("relu_neg"), nInner)

\* The source pattern, matched from the root down:
\* (TF_AddV2Op (TF_ReluOp:$relu_out $x),
\*             (TF_MulOp:$mul_out (TF_ReluOp (TF_NegOp:$input_neg_out $x)), $neg_alpha))
\* The two occurrences of $x are the same value.
Matches(add, relu_out, mul_out, relu_neg, input_neg_out) ==
  /\ add.kind = "AddV2"
  /\ relu_out.id = add.operands[1] /\ relu_out.kind = "Relu"
  /\ mul_out.id = add.operands[2] /\ mul_out.kind = "Mul"
  /\ relu_neg.id = mul_out.operands[1] /\ relu_neg.kind = "Relu"
  /\ input_neg_out.id = relu_neg.operands[1] /\ input_neg_out.kind = "Neg"
  /\ input_neg_out.operands[1] = relu_out.operands[1]

\* The result pattern (TFJS_PReluOp $x, (TF_NegOp $neg_alpha)) in place of add:
\* the two operations are created, the uses of add become uses of the PRelu
\* and add is erased.
Replaced(add, x, neg_alpha) ==
  LET others == ops \ {add}
      moved == {Op(o.id, o.kind,
                   [i \in 1..Len(o.operands) |->
                      IF o.operands[i] = add.id THEN Val("prelu")
                      ELSE o.operands[i]]) : o \in others}
  IN  moved \cup {Op(Val("neg_alpha_neg"), "Neg", <<neg_alpha>>),
                  Op(Val("prelu"), "PRelu", <<x, Val("neg_alpha_neg")>>)}

\* The pattern without the constraint on $mul_out.
PReluPattern_MulUnchecked ==
  /\ \E add \in {o \in ops : o.kind = "AddV2"} :
       \E relu_out \in DefiningOp(add.operands[1]),
          mul_out \in {o \in DefiningOp(add.operands[2]) : o.kind = "Mul"} :
         \E relu_neg \in {o \in DefiningOp(mul_out.operands[1]) : o.kind = "Relu"} :
           \E input_neg_out \in DefiningOp(relu_neg.operands[1]) :
             LET x == relu_out.operands[1]
                 neg_alpha == mul_out.operands[2]
             IN  /\ Matches(add, relu_out, mul_out, relu_neg, input_neg_out)
                 /\ PReluAlphaRankCheck(neg_alpha, x)
                 /\ HasOneUse(relu_out.id)
                 /\ HasOneUse(input_neg_out.id)
                 /\ ops' = Replaced(add, x, neg_alpha)
  /\ UNCHANGED <<eventVars, glslVars, rank>>

\* def : Pat<source, result, [constraints]>: one application of the pattern.
\* $x is the operand of $relu_out and $neg_alpha the second operand of $mul_out.
PReluPattern ==
  /\ \E add \in {o \in ops : o.kind = "AddV2"} :
       \E relu_out \in DefiningOp(add.operands[1]),
          mul_out \in {o \in DefiningOp(add.operands[2]) : o.kind = "Mul"} :
         \E relu_neg \in {o \in DefiningOp(mul_out.operands[1]) : o.kind = "Relu"} :
           \E input_neg_out \in DefiningOp(relu_neg.operands[1]) :
             LET x == relu_out.operands[1]
                 neg_alpha == mul_out.operands[2]
             IN  /\ Matches(add, relu_out, mul_out, relu_neg, input_neg_out)
                 /\ PReluAlphaRankCheck(neg_alpha, x)
                 /\ HasOneUse(relu_out.id)
                 /\ HasOneUse(mul_out.id)
                 /\ HasOneUse(input_neg_out.id)
                 /\ ops' = Replaced(add, x, neg_alpha)
  /\ UNCHANGED <<eventVars, glslVars, rank>>

\* One function, with any ranks of x and neg_alpha and any other users.
PReluInit ==
  /\ EventInit
  /\ GlslIdle
  /\ rank \in [{ArgX, ArgNegAlpha} -> 0..MaxRank]
  /\ \E nRelu, nMul, nNeg, nInner \in 0..MaxOtherUses :
       ops = KerasPRelu(nRelu, nMul, nNeg, nInner)

PReluNext == PReluPattern

SpecPRelu == PReluInit /\ [][PReluNext]_vars

----------------------------------------------------------------------------
\* Properties.

Blocking(t) == op[t] = "BlockHostUntilReady"
Registering(t) == op[t] = "OnReady"
\* The async value behind the PjRtEvent object the call of thread t is made on.
AvOf(t) == futAv[cur[t]]
\* The call of thread t found the value unresolved.
FoundUnresolved(t) == path[t] \in {"unavailable", "blocked"}

\* C1: single assignment.  A resolved value keeps its state and its stored value
\* in every step, and what BlockHostUntilReady returned or an OnReady callback
\* was called with, on any PjRtEvent sharing the value, is the stored value.
C1_ObservedIsStored ==
  \A t \in Threads :
    /\ (Blocking(t) /\ pc[t] = "done") =>
         (ret[t] \in Values /\ ret[t] = avData[AvOf(t)])
    /\ \A i \in 1..Len(cbArgs[t]) :
         (cbArgs[t][i] \in Values /\ cbArgs[t][i] = avData[AvOf(t)])

C1_StoredStays ==
  \A a \in AsyncValues :
    avState[a] = "concrete" => (avState'[a] = "concrete" /\ avData'[a] = avData[a])

C1_SingleAssignment == [](C1_ObservedIsStored) /\ [][C1_StoredStays]_vars

\* A value resolved by one Set, returned to a thread that had blocked on one
\* copy and delivered to the callback registered on another copy.
C1_Witness ==
  \E t, u \in Threads :
    /\ Blocking(t) /\ pc[t] = "done" /\ path[t] = "blocked"
    /\ Registering(u) /\ Len(cbArgs[u]) = 1
    /\ cur[t] # cur[u] /\ AvOf(t) = AvOf(u)
    /\ setCalls[AvOf(t)] = 1
    /\ ret[t] = avData[AvOf(t)] /\ cbArgs[u][1] = avData[AvOf(t)]

\* C2: a BlockHostUntilReady that found the value unresolved has called
\* on_block_start once, then Await, then on_block_end once, and returned the
\* resolved value.
C2_HooksAroundBlocking ==
  \A t \in Threads :
    (Blocking(t) /\ pc[t] = "done" /\ FoundUnresolved(t)) =>
      /\ calls[t] = <<"on_block_start", "Await", "on_block_end">>
      /\ ret[t] = avData[AvOf(t)]

\* C3: fast path.  A BlockHostUntilReady that finds the value resolved returns
\* it without Await and without a profiling hook, and a PjRtEvent built by
\* PjRtEvent(T) is always found resolved.
C3_FastPath ==
  \A t \in Threads :
    Blocking(t) =>
      /\ futCtx[cur[t]] = "null" => path[t] = "available"
      /\ path[t] = "available" =>
           (pc[t] = "done" /\ calls[t] = <<>> /\ ret[t] = avData[AvOf(t)])

\* One thread returned from a PjRtEvent(T) future, another from a future that
\* Set had resolved before the call, both without a collaborator call.
C3_Witness ==
  \E t, u \in Threads :
    /\ Blocking(t) /\ pc[t] = "done" /\ futCtx[cur[t]] = "null"
    /\ ret[t] \in Values /\ calls[t] = <<>>
    /\ Blocking(u) /\ pc[u] = "done" /\ futCtx[cur[u]] = "ctx"
    /\ path[u] = "available" /\ setCalls[AvOf(u)] = 1
    /\ ret[u] \in Values /\ calls[u] = <<>>

\* C4: a BlockHostUntilReady that found the value unresolved is past its Await
\* only when Set has resolved the value, and returns the value Set stored.
C4_ReturnsAfterSet ==
  \A t \in Threads :
    (Blocking(t) /\ FoundUnresolved(t)) =>
      /\ pc[t] \in {"return", "done"} =>
           (IsConcrete(AvOf(t)) /\ setCalls[AvOf(t)] >= 1)
      /\ pc[t] = "done" => (ret[t] \in Values /\ ret[t] = avData[AvOf(t)])

\* Both kinds of slow call have returned: one that blocked in Await, one whose
\* Await found the value resolved in the meantime.
C4_Witness ==
  \E t, u \in Threads :
    /\ Blocking(t) /\ pc[t] = "done" /\ path[t] = "blocked"
    /\ Blocking(u) /\ pc[u] = "done" /\ path[u] = "unavailable"
    /\ ret[t] \in Values /\ ret[u] \in Values

\* C5: callback delivery.  A callback registered with OnReady is never called
\* while the value is unresolved and never more than once; once the value is
\* resolved it has been called exactly when it is no longer among the
\* continuations to run, with the resolved value; and it is called eventually,
\* whether it was registered before Set or after.
C5_CalledAtMostOnceWithValue ==
  \A t \in Threads :
    Registering(t) =>
      /\ Len(cbArgs[t]) <= 1
      /\ ~IsAvailable(AvOf(t)) =>
           (cbArgs[t] = <<>> /\ Waiter("callback", t) \in waiters[AvOf(t)])
      /\ IsAvailable(AvOf(t)) =>
           /\ Waiter("callback", t) \notin waiters[AvOf(t)]
           /\ (cbArgs[t] = <<>>) <=> (Waiter("callback", t) \in running[AvOf(t)])
           /\ cbArgs[t] # <<>> => cbArgs[t][1] = avData[AvOf(t)]

C5_CalledEventually ==
  \A t \in Threads :
    (Registering(t) /\ IsAvailable(AvOf(t))) ~> (Len(cbArgs[t]) = 1)

C5_CallbackDelivery == [](C5_CalledAtMostOnceWithValue) /\ C5_CalledEventually

\* One callback registered before Set and one registered after, each called
\* once with the value Set stored.
C5_Witness ==
  \E t, u \in Threads :
    /\ Registering(t) /\ path[t] = "unavailable"
    /\ Registering(u) /\ path[u] = "available"
    /\ AvOf(t) = AvOf(u) /\ setCalls[AvOf(t)] = 1
    /\ cbArgs[t] = <<avData[AvOf(t)]>> /\ cbArgs[u] = <<avData[AvOf(t)]>>

\* C6: multiple waiters.  When every thread has called BlockHostUntilReady on a
\* PjRtEvent of one unresolved value and Set resolves it, every call returns,
\* with the stored value; a blocked thread always has its wake-up ahead: the
\* notifier is registered while a producer can still call Set, and is among
\* the continuations to run once the value is resolved.
C6_AllWaitOn(a) ==
  \A t \in Threads : Blocking(t) /\ AvOf(t) = a /\ FoundUnresolved(t)

C6_AllReturn ==
  \A a \in AsyncValues :
    (C6_AllWaitOn(a) /\ IsAvailable(a)) ~>
      (\A t \in Threads : pc[t] = "done" /\ ret[t] = avData[a])

C6_WakeUpAhead ==
  \A t \in Threads :
    (Blocking(t) /\ pc[t] = "blocked") =>
      IF IsAvailable(AvOf(t))
        THEN Waiter("await", t) \in running[AvOf(t)]
        ELSE /\ Waiter("await", t) \in waiters[AvOf(t)]
             /\ \E h \in Events : event[h] = AvOf(t) /\ CalledAtMostOnce(h)

C6_SameValue ==
  \A t, u \in Threads :
    (Blocking(t) /\ Blocking(u) /\ pc[t] = "done" /\ pc[u] = "done"
       /\ AvOf(t) = AvOf(u)) => ret[t] = ret[u]

C6_MultipleWaiters == [](C6_WakeUpAhead /\ C6_SameValue) /\ C6_AllReturn

\* Every thread is blocked on the same value, through PjRtEvent copies, and one
\* Set has just resolved it.
C6_Witness ==
  \E a \in AsyncValues :
    /\ \A t \in Threads : Blocking(t) /\ pc[t] = "blocked" /\ AvOf(t) = a
    /\ \E t, u \in Threads : cur[t] # cur[u]
    /\ IsAvailable(a) /\ setCalls[a] = 1

\* A step in which Set is called on an async value that Set has resolved before.
SetCalledAgain(a) == setCalls[a] >= 1 /\ setCalls'[a] = setCalls[a] + 1

C8_SharedOwnership ==
  /\ \A h \in Events : evMade[h] # Null => event[h] = evMade[h]
  /\ \A f \in Futures : futMade[f] # Null => futAv[f] = futMade[f]
  /\ \A h \in Events, f \in Futures :
       (evMade[h] # Null /\ futMade[f] = evMade[h] /\ setCalls[evMade[h]] >= 1) =>
         (futAv[f] # Null /\ IsAvailable(futAv[f]) /\ Deref(futAv[f]) = avData[evMade[h]])
  /\ \A t \in Threads :
       (Blocking(t) /\ pc[t] = "done") => ret[t] = avData[futMade[cur[t]]]

\* Two handles on one value (one is a copy: CreateUnSetEvent never gives the
\* same value twice), a PjRtEvent on that value, one Set, and a thread that
\* blocked on the PjRtEvent and returned the value.
C8_Witness ==
  \E h, g \in Events, f \in Futures, t \in Threads :
    /\ h # g /\ event[h] # Null /\ event[h] = event[g] /\ futAv[f] = event[h]
    /\ setCalls[event[h]] = 1
    /\ Blocking(t) /\ cur[t] = f /\ pc[t] = "done" /\ path[t] = "blocked"
    /\ ret[t] = avData[event[h]]

\* C9: liveness of blocking.  A thread blocked in BlockHostUntilReady returns
\* once the value is resolved, and leaves the blocked state in no other way:
\* only by the step of a resolved value's notifier, towards its return.
C9_ReturnsOnceResolved ==
  \A t \in Threads :
    (Blocking(t) /\ pc[t] = "blocked" /\ IsAvailable(AvOf(t))) ~> (pc[t] = "done")

C9_LeavesBlockedOnlyResolved ==
  \A t \in Threads :
    (pc[t] = "blocked" /\ pc'[t] # "blocked") =>
      (IsAvailable(AvOf(t)) /\ pc'[t] = "return")

C9_BlockedUntilResolved ==
  C9_ReturnsOnceResolved /\ [][C9_LeavesBlockedOnlyResolved]_vars

\* A thread that blocked has returned after Set, while another, blocked on the
\* same value, still waits for its notifier to run.
C9_Witness ==
  \E t, u \in Threads :
    /\ Blocking(t) /\ path[t] = "blocked" /\ pc[t] = "done"
    /\ ret[t] = avData[AvOf(t)] /\ setCalls[AvOf(t)] = 1
    /\ Blocking(u) /\ pc[u] = "blocked" /\ AvOf(u) = AvOf(t)
    /\ Waiter("await", u) \in running[AvOf(u)]

\* C10: OnReady never suspends.  A thread is in Await, blocked or returning
\* only within BlockHostUntilReady; an OnReady call has returned as soon as it
\* is made, on an unresolved value with its callback left pending; and a
\* thread becomes blocked only in BlockHostUntilReady on an unresolved value.
C10_OnlyBlockHostSuspends ==
  \A t \in Threads :
    /\ pc[t] \in {"await", "blocked", "return"} => Blocking(t)
    /\ Registering(t) => pc[t] = "done"

C10_Steps ==
  \A t \in Threads :
    /\ (op[t] = "none" /\ op'[t] = "OnReady") =>
         /\ pc'[t] = "done"
         /\ ~IsAvailable(futAv[cur'[t]]) =>
              /\ Waiter("callback", t) \in waiters'[futAv[cur'[t]]]
              /\ cbArgs'[t] = <<>>
    /\ (pc[t] # "blocked" /\ pc'[t] = "blocked") =>
         (op[t] = "BlockHostUntilReady" /\ ~IsAvailable(AvOf(t)))

C10_OnReadyNeverSuspends == [](C10_OnlyBlockHostSuspends) /\ [][C10_Steps]_vars

\* An OnReady call returned with its callback pending on an unresolved value,
\* while another thread is blocked on that value.
C10_Witness ==
  \E t, u \in Threads :
    /\ Registering(t) /\ pc[t] = "done" /\ cbArgs[t] = <<>>
    /\ ~IsAvailable(AvOf(t)) /\ Waiter("callback", t) \in waiters[AvOf(t)]
    /\ Blocking(u) /\ pc[u] = "blocked" /\ AvOf(u) = AvOf(t)

\* An Event that was given the result of CreateUnSetEvent (a copy is made from
\* the async value of another Event).
Created(h) == evMade[h] = UnconstructedFor(h)

\* C11: handle emptiness.  An Event left as its default constructor made it is
\* empty: operator! is true and it refers to no async value.  An Event returned
\* by CreateUnSetEvent is not empty; its async value is unresolved until Set is
\* called on it, is referred to by nothing else when it is returned, and is
\* not the value of another CreateUnSetEvent handle, so a Set on it changes no
\* other async value.
C11_EmptyOrBacked ==
  /\ \A h \in Events :
       evMade[h] = Null => (OperatorNot(h) /\ event[h] \notin AsyncValues)
  /\ \A h \in Events :
       Created(h) =>
         /\ ~OperatorNot(h) /\ event[h] \in AsyncValues
         /\ avState[event[h]] # "free"
         /\ setCalls[event[h]] = 0 =>
              (avState[event[h]] = "unconstructed" /\ avData[event[h]] = NoValue)
  /\ \A h, g \in Events :
       (Created(h) /\ Created(g) /\ h # g) => event[h] # event[g]

C11_FreshSteps ==
  /\ \A h \in Events :
       (~Created(h) /\ Created(h)') =>
         /\ \A g \in Events : event[g] # event'[h]
         /\ \A f \in Futures : futAv[f] # event'[h]
         /\ avState'[event'[h]] = "unconstructed"
         /\ waiters'[event'[h]] = {} /\ setCalls'[event'[h]] = 0
  /\ \A a \in AsyncValues :
       setCalls'[a] # setCalls[a] =>
         \A b \in AsyncValues \ {a} :
           avState'[b] = avState[b] /\ avData'[b] = avData[b]

C11_HandleEmptiness == [](C11_EmptyOrBacked) /\ [][C11_FreshSteps]_vars

\* Two handles from CreateUnSetEvent, one resolved by Set and the other still
\* unresolved, next to an Event that is still empty.
C11_Witness ==
  \E h, g, k \in Events :
    /\ h # g /\ Created(h) /\ Created(g)
    /\ setCalls[event[h]] = 1 /\ IsAvailable(event[h])
    /\ ~IsAvailable(event[g]) /\ avState[event[g]] = "unconstructed"
    /\ evMade[k] = Null /\ OperatorNot(k)

\* A PjRtEvent built by PjRtEvent(T), or a copy of one.
FromValue(f) == \E g \in Futures : futMade[f] = AvailableFor(g)

\* C12: the null host context is never dereferenced.  A PjRtEvent built by
\* PjRtEvent(T), and every copy of it, has a null host_ctx_ and an available
\* value; a call on it is over without reaching Await, and no step brings a
\* thread to Await on an object whose host_ctx_ is null, so the process never
\* stops on a null dereference.
C12_NullContextUnused ==
  /\ ~aborted
  /\ \A f \in Futures :
       FromValue(f) => (futCtx[f] = "null" /\ IsAvailable(futAv[f]))
  /\ \A f \in Futures :
       (futAv[f] # Null /\ futCtx[f] = "null") => FromValue(f)
  /\ \A t \in Threads :
       (op[t] # "none" /\ futCtx[cur[t]] = "null") =>
         (pc[t] = "done" /\ calls[t] = <<>>)

C12_NoAwaitOnNull ==
  \A t \in Threads :
    pc'[t] \in {"await", "blocked", "return"} => futCtx'[cur'[t]] = "ctx"

C12_NullContextNeverTouched ==
  [](C12_NullContextUnused) /\ [][C12_NoAwaitOnNull]_vars

\* BlockHostUntilReady has returned from a PjRtEvent(T) object and OnReady has
\* called its callback on a copy of that object.
C12_Witness ==
  \E t, u \in Threads :
    /\ Blocking(t) /\ pc[t] = "done" /\ Registering(u) /\ Len(cbArgs[u]) = 1
    /\ cur[t] # cur[u] /\ AvOf(t) = AvOf(u)
    /\ FromValue(cur[t]) /\ FromValue(cur[u])
    /\ futCtx[cur[t]] = "null" /\ futCtx[cur[u]] = "null"
    /\ ret[t] = avData[AvOf(t)] /\ ~aborted

\* C13: no lost wake-up.  The availability test and the Await are two steps.
\* Once Set has resolved the value, a BlockHostUntilReady that had found it
\* unresolved is not left waiting: it is before its Await, which will find the
\* value, or blocked with its notifier among the continuations to run, or on
\* its way out; and it returns the value Set stored.
C13_NotStranded ==
  \A t \in Threads :
    (Blocking(t) /\ FoundUnresolved(t) /\ IsAvailable(AvOf(t))) =>
      \/ pc[t] = "await" /\ futCtx[cur[t]] = "ctx"
      \/ pc[t] = "blocked" /\ Waiter("await", t) \in running[AvOf(t)]
      \/ pc[t] = "return"
      \/ pc[t] = "done" /\ ret[t] = avData[AvOf(t)]

C13_Returns ==
  \A t \in Threads :
    (Blocking(t) /\ FoundUnresolved(t) /\ IsAvailable(AvOf(t))) ~>
      (pc[t] = "done" /\ ret[t] \in Values /\ ret[t] = avData[AvOf(t)])

C13_NoLostWakeup == [](C13_NotStranded) /\ C13_Returns

\* Set ran between the test and the Await of one thread, which then returned
\* from Await without blocking, and after another thread had blocked.
C13_Witness ==
  \E t, u \in Threads :
    /\ Blocking(t) /\ path[t] = "unavailable" /\ calls[t] = <<"Await">>
    /\ pc[t] = "done" /\ setCalls[AvOf(t)] = 1 /\ ret[t] = avData[AvOf(t)]
    /\ Blocking(u) /\ path[u] = "blocked" /\ AvOf(u) = AvOf(t)
    /\ pc[u] = "done" /\ ret[u] = ret[t]

\* The threads whose OnReady call registered a callback on async value a.
RegisteredOn(a) == {t \in Threads : Registering(t) /\ AvOf(t) = a}

\* C14: callbacks under races.  Of the callbacks registered on PjRtEvent objects
\* of one async value, by threads running along with the thread that calls
\* Set, none is lost: each is registered, queued to run or called, in every
\* state; a step calls one callback, once, with the stored value, and touches
\* no other callback; and once Set has resolved the value every one of them
\* has been called exactly once, in whatever order the steps came.
C14_NoneLost ==
  \A a \in AsyncValues : \A t \in RegisteredOn(a) :
    \/ /\ cbArgs[t] = <<>> /\ ~IsAvailable(a)
       /\ Waiter("callback", t) \in waiters[a] /\ Waiter("callback", t) \notin running[a]
    \/ /\ cbArgs[t] = <<>> /\ IsAvailable(a)
       /\ Waiter("callback", t) \in running[a] /\ Waiter("callback", t) \notin waiters[a]
    \/ /\ cbArgs[t] = <<avData[a]>> /\ IsAvailable(a)
       /\ Waiter("callback", t) \notin running[a] /\ Waiter("callback", t) \notin waiters[a]

C14_OneAtATime ==
  \A t \in Threads :
    cbArgs'[t] # cbArgs[t] =>
      /\ cbArgs[t] = <<>> /\ Len(cbArgs'[t]) = 1
      /\ IsAvailable(futAv'[cur'[t]]) /\ cbArgs'[t][1] = avData[futAv'[cur'[t]]]
      /\ \A u \in Threads \ {t} : cbArgs'[u] = cbArgs[u]

C14_AllCalled ==
  \A a \in AsyncValues :
    (IsAvailable(a) /\ setCalls[a] = 1) ~>
      (\A t \in RegisteredOn(a) : cbArgs[t] = <<avData[a]>>)

C14_CallbacksUnderRaces ==
  [](C14_NoneLost) /\ [][C14_OneAtATime]_vars /\ C14_AllCalled

\* Two callbacks registered before Set through two PjRtEvent objects of one
\* value; Set has resolved it, and the callback registered later has been
\* called while the one registered first is still to be run.
C14_Witness ==
  \E t, u \in Threads :
    /\ u < t /\ Registering(t) /\ Registering(u)
    /\ cur[t] # cur[u] /\ AvOf(t) = AvOf(u)
    /\ path[t] = "unavailable" /\ path[u] = "unavailable"
    /\ setCalls[AvOf(t)] = 1
    /\ cbArgs[t] = <<avData[AvOf(t)]>>
    /\ cbArgs[u] = <<>> /\ Waiter("callback", u) \in running[AvOf(u)]

\* The resolution state of async value a changes in the step.
ResolutionChanges(a) == avState'[a] # avState[a] \/ avData'[a] # avData[a]

\* C15: only Set changes the resolution state.  A step that changes the state
\* or the stored value of an async value in use is a call of Set on it, takes
\* it from unresolved to resolved and stores a value; hence a step of
\* BlockHostUntilReady or OnReady, a copy of an Event or a PjRtEvent, and the
\* run of a continuation change neither.  A value is resolved exactly when Set
\* was called on it or PjRtEvent(T) made it, and Set is counted once.
C15_OnlySetResolves ==
  \A a \in AsyncValues :
    avState[a] # "free" =>
      /\ ResolutionChanges(a) =>
           /\ setCalls'[a] = setCalls[a] + 1
           /\ avState[a] = "unconstructed" /\ avData[a] = NoValue
           /\ avState'[a] = "concrete" /\ avData'[a] \in Values
      /\ (threadVars' # threadVars \/ objVars' # objVars \/ running' # running) =>
           ~ResolutionChanges(a) \/ setCalls'[a] # setCalls[a]
      /\ avState'[a] # "free"

C15_ResolvedOnce ==
  \A a \in AsyncValues :
    /\ setCalls[a] <= 1
    /\ avState[a] = "unconstructed" => (setCalls[a] = 0 /\ avData[a] = NoValue)
    /\ avState[a] = "concrete" =>
         /\ avData[a] \in Values
         /\ setCalls[a] = 1 \/ \E f \in Futures : a = AvailableFor(f)

C15_FrameOfResolution == [](C15_ResolvedOnce) /\ [][C15_OnlySetResolves]_vars

\* A value with two Event handles, resolved by one Set, after which a
\* BlockHostUntilReady found it resolved and returned it, and a callback
\* registered before the Set was called with it.
C15_Witness ==
  \E h, g \in Events, t, u \in Threads :
    /\ h # g /\ event[h] # Null /\ event[h] = event[g]
    /\ setCalls[event[h]] = 1 /\ IsAvailable(event[h])
    /\ Blocking(t) /\ AvOf(t) = event[h] /\ path[t] = "available"
    /\ pc[t] = "done" /\ ret[t] = avData[event[h]]
    /\ Registering(u) /\ AvOf(u) = event[h] /\ path[u] = "unavailable"
    /\ cbArgs[u] = <<avData[event[h]]>>

\* The references on async value a that the state accounts for: one for each
\* Event and PjRtEvent object on it, one for each OnReady lambda registered or
\* taken to be run, one for each thread blocked in Await.
Holders(a) ==
  Cardinality({h \in Events : event[h] = a})
  + Cardinality({f \in Futures : futAv[f] = a})
  + Cardinality(waiters[a] \cup running[a])

\* C16: lifetime of the shared value.  Every pending OnReady callback and
\* every thread blocked in BlockHostUntilReady holds a reference of its own on
\* the async value, next to those of the Event and PjRtEvent objects, so the
\* count is at least one and the value is not destroyed while a callback is
\* pending or a thread is blocked, whatever objects were destroyed; the value
\* is destroyed in the step that releases its last reference and in no other.
C16_CountedReferences ==
  \A a \in AsyncValues :
    avState[a] # "free" =>
      /\ refCount[a] = Holders(a)
      /\ (avState[a] = "destroyed") <=> (refCount[a] = 0)
      /\ (waiters[a] \cup running[a] # {}) =>
           (refCount[a] >= 1 /\ avState[a] # "destroyed")
      /\ \A t \in Threads :
           (pc[t] = "blocked" /\ futAv[cur[t]] = a) =>
             (Waiter("await", t) \in waiters[a] \cup running[a] /\ refCount[a] >= 2)

C16_DestroyedWithLast ==
  \A a \in AsyncValues :
    /\ (avState[a] # "destroyed" /\ avState'[a] = "destroyed") =>
         (refCount[a] = 1 /\ refCount'[a] = 0)
    /\ (refCount[a] >= 1 /\ refCount'[a] = 0) => avState'[a] = "destroyed"
    /\ avState[a] = "destroyed" => (avState'[a] = "destroyed" /\ refCount'[a] = 0)

C17_Bytes(dt) ==
  IF dt \in {"UINT8", "INT8"} THEN 1
  ELSE IF dt \in {"FLOAT16", "UINT16", "INT16"} THEN 2
  ELSE IF dt \in {"FLOAT32", "UINT32", "INT32"} THEN 4
  ELSE IF dt \in {"FLOAT64", "UINT64", "INT64"} THEN 8
  ELSE 0

C17_Base(dt, vs, fp16) ==
  LET half == dt = "FLOAT16" /\ fp16
      floats == {"FLOAT16", "FLOAT32", "FLOAT64"}
      ints == {"INT8", "INT16", "INT32", "INT64"}
      scalar == IF dt = "UNKNOWN" THEN "unknown"
                ELSE IF half THEN "float16_t"
                ELSE IF dt \in floats THEN "float"
                ELSE IF dt \in ints THEN "int" ELSE "uint"
      vector == IF dt = "UNKNOWN" THEN "unknown"
                ELSE IF half THEN "f16vec"
                ELSE IF dt \in floats THEN "vec"
                ELSE IF dt \in ints THEN "ivec" ELSE "uvec"
  IN  IF vs = 1 THEN scalar ELSE vector \o to_string(vs)

C17_Prefix(dt, addp, fp16) ==
  IF ~addp \/ dt = "UNKNOWN" \/ (dt = "FLOAT16" /\ fp16) THEN ""
  ELSE IF C17_Bytes(dt) >= 4 THEN "highp "
  ELSE IF C17_Bytes(dt) = 2 THEN "mediump "
  ELSE "lowp "

\* C17: ToGlslShaderDataType returns, for every DataType, vec_size,
\* add_precision and explicit_fp16, the base type with the precision prefix
\* before it: the base type is the scalar name when vec_size is 1 and the
\* vector name followed by vec_size otherwise (float16_t and f16vec for
\* FLOAT16 with explicit_fp16, unknown for UNKNOWN); the prefix is there only
\* with add_precision, highp for sizes of 4 bytes and more, mediump for 2,
\* lowp for 1, and none for UNKNOWN and for FLOAT16 with explicit_fp16.
C17_GlslTypeName ==
  glslPc = "returned" =>
    kernel_type = C17_Prefix(data_type, add_precision, explicit_fp16)
                    \o C17_Base(data_type, vec_size, explicit_fp16)

\* The call returned f16vec4 for FLOAT16 with explicit_fp16 and add_precision.
C17_Witness ==
  /\ glslPc = "returned"
  /\ data_type = "FLOAT16" /\ vec_size = 4 /\ add_precision /\ explicit_fp16
  /\ kernel_type = "f16vec4"

\* The operations of the pattern, as the function had them before any rewrite.
C18_Source ==
  {Op(Val("neg"), "Neg", <<ArgX>>),
   Op(Val("relu_neg"), "Relu", <<Val("neg")>>),
   Op(Val("mul"), "Mul", <<Val("relu_neg"), ArgNegAlpha>>),
   Op(Val("relu"), "Relu", <<ArgX>>),
   Op(Val("add"), "AddV2", <<Val("relu"), Val("mul")>>)}

C18_Rewritten ==
  /\ Op(Val("prelu"), "PRelu", <<ArgX, Val("neg_alpha_neg")>>) \in ops
  /\ Op(Val("neg_alpha_neg"), "Neg", <<ArgNegAlpha>>) \in ops
  /\ Op(Val("return"), "Return", <<Val("prelu")>>) \in ops
  /\ \A o \in ops : o.kind # "AddV2"

\* The four guards, counted on the operations of the function: the uses of a
\* result are the operand slots of all operations that hold it.
C18_UsesOf(v) ==
  Cardinality({o \in ops : Len(o.operands) >= 1 /\ o.operands[1] = v})
  + Cardinality({o \in ops : Len(o.operands) >= 2 /\ o.operands[2] = v})

C18_Guards ==
  /\ rank[ArgNegAlpha] + 1 = rank[ArgX]
  /\ C18_UsesOf(Val("relu")) = 1
  /\ C18_UsesOf(Val("mul")) = 1
  /\ C18_UsesOf(Val("neg")) = 1

\* C18: the PReLU rewrite.  The function changes only by the rewrite of
\* AddV2(Relu(x), Mul(Relu(Neg(x)), neg_alpha)) to PRelu(x, Neg(neg_alpha)),
\* and only from a state where the four guards hold: the rank of neg_alpha is
\* the rank of x minus one, and the results of Relu(x), of the Mul and of
\* Neg(x) have one use each.  While a guard fails the function is as it was.
C18_Unchanged ==
  /\ C18_Source \subseteq ops \/ C18_Rewritten
  /\ ~(C18_Source \subseteq ops /\ C18_Rewritten)
  /\ (C18_Source \subseteq ops /\ ~C18_Guards) => ~ENABLED PReluPattern

C18_Step ==
  ops' # ops => (C18_Source \subseteq ops /\ C18_Guards /\ C18_Rewritten')

C18_PReluRewrite == [](C18_Unchanged) /\ [][C18_Step]_vars

\* The rewrite was applied to a function in which the inner Relu, which has no
\* guard, had another user.
C18_Witness ==
  /\ C18_Rewritten
  /\ rank[ArgX] = 3 /\ rank[ArgNegAlpha] = 2
  /\ Op(<<"use_relu_neg", 1>>, "Identity", <<Val("relu_neg")>>) \in ops

====
